---- MODULE Spec2Model ----
(***************************************************************************)
(* asio/impl/await.hpp: one spawned chain.                                 *)
(*                                                                         *)
(*   entry frame E  = the spawn_entry_point coroutine (promise: awaiter)   *)
(*   user frame  F  = the user's suspendable function (promise: awaitee 0) *)
(*   awaitee k>=1   = the dummy awaitable made for F's k-th external       *)
(*                    operation, written by that operation's await_handler *)
(*                                                                         *)
(* The user function is a script: it awaits nOps external operations one   *)
(* after the other, lets a failure reported by one of them propagate, and  *)
(* finally co_returns a value (term = "ret") or throws (term = "throw").   *)
(* Its operation number nestAt, if any, is a nested spawn: co_await        *)
(* spawn(ctx, h, ctx). The chain of h is a second awaiter with its own     *)
(* entry frame; it is followed handler by handler (hPh), and in code steps *)
(* where it runs code of the outer chain.                                  *)
(* Handlers (spawn_handler, await_handler, destroy_awaiter, the final      *)
(* callback) run on workers, one code step at a time.                      *)
(***************************************************************************)
EXTENDS Integers, Sequences, FiniteSets, TLC

\* ------------------------------------------------------------- bounds
MaxOps == 2          \* external operations the user function may await
MaxMoves == 1        \* move-constructions of await_handler objects per chain

\* ------------------------------------------------------------- environment
Workers == {"A", "B"}
Pool == {"A"}        \* the workers that run the execution context's queue
Variants == {"void", "ec", "ex", "val", "ec_val", "ex_val"}
Outcomes == {"ok", "fail"}
None == "none"       \* null exception_ptr / null coroutine_handle

VARIABLES
  mt,          \* environment: may handlers of the chain overlap on different workers
  nOps,        \* input: number of operations the user function awaits
  term,        \* input: how the user function ends ("ret" / "throw")
  cbThrows,    \* input: does the final callback throw when invoked
  nestAt,      \* input: which operation of the user function is a nested spawn (0: none)
  hAwaits,     \* input: does h await an external operation before it ends
  hTerm,       \* input: how h ends ("ret" / "throw")
  refCount,    \* awaiter::ref_count_
  awPending,   \* awaiter::pending_exception_
  eAlive,      \* the entry coroutine frame exists
  ePh,         \* position of the entry frame
  eDone,       \* spawn_entry_point's local `done`
  eRes,        \* what the entry frame is about to hand to the final callback
  fAlive,      \* the user function's frame exists
  fPh,         \* position of the user function's frame
  fIdx,        \* index of the operation the user function is at
  aw,          \* awaitee promises: 0 = user function, k = dummy of operation k
  ad,          \* await_handler objects of the operations
  moves,       \* number of handler move-constructions so far
  hPh,         \* position of the nested chain (entry frame, h, their awaiter)
  queue,       \* the execution context's queue of posted function objects
  wk,          \* per worker: the handler it is running and where it is in it
  finalCalls,  \* history: invocations of the final callback
  escaped,     \* history: exceptions that left a handler into the ambient worker
  destroyLog,  \* history: destructions of the entry frame (who, in which handler,
               \*          where the entry frame was)
  hist,        \* history: counters and outcomes used to state the properties
  ub           \* history: a destroyed object was used / a running frame destroyed

inputs == <<mt, nOps, term, cbThrows, nestAt, hAwaits, hTerm>>
awaiterVars == <<refCount, awPending, eAlive>>
entryVars == <<ePh, eDone, eRes>>
userVars == <<fAlive, fPh, fIdx>>
history == <<finalCalls, escaped, destroyLog, hist, ub>>
vars == <<inputs, awaiterVars, entryVars, userVars, aw, ad, moves, hPh, queue, wk, history>>

\* ------------------------------------------------------------- adapter shapes
HasFailure(v) == v \in {"ec", "ex", "ec_val", "ex_val"}
HasValue(v) == v \in {"val", "ec_val", "ex_val"}
\* the exception the adapter records for a reported failure
MakeException(v) == IF v \in {"ec", "ec_val"} THEN "system_error" ELSE "ex"

\* ------------------------------------------------------------- awaitee_base / awaitee<T>
\* `written` and `writes` are history fields: something was written into the
\* computation, and how many times.
NewAwaitee ==
  [ready |-> FALSE, initialised |-> FALSE, pending |-> None, caller |-> None,
   value |-> "junk", alive |-> TRUE, written |-> FALSE, writes |-> 0]

NoAwaitee == [NewAwaitee EXCEPT !.alive = FALSE]

UnhandledException_NoReady(a, e) ==
  [a EXCEPT !.pending = e, !.written = TRUE, !.writes = @ + 1]

UnhandledException(a, e) ==
  [a EXCEPT !.pending = e, !.ready = TRUE, !.written = TRUE, !.writes = @ + 1]

SetException_NoReady(a, e) ==
  [a EXCEPT !.pending = e, !.written = TRUE, !.writes = @ + 1]

SetException(a, e) ==
  [a EXCEPT !.pending = e, !.ready = TRUE, !.written = TRUE, !.writes = @ + 1]

ReturnValue(a, v) ==
  [a EXCEPT !.value = v, !.initialised = TRUE, !.written = TRUE, !.writes = @ + 1]

ReturnVoid(a) == [a EXCEPT !.written = TRUE, !.writes = @ + 1]

Ready_Always(a) == TRUE

Ready(a) == a.ready

SetCaller(a, h) == [a EXCEPT !.caller = h]

\* wake_caller: the frame it resumes, None when no caller is registered
WakeCaller(a) == a.caller

\* value(): rethrow_exception() exchanges the pending exception for null and
\* throws it; otherwise the buffer is moved out.
Value(a) ==
  [exc |-> a.pending,
   val |-> IF a.initialised THEN a.value ELSE "junk",
   a |-> [a EXCEPT !.pending = None]]

AwaitResume_KeepCaller(a) == Value(a)

\* await_resume: set_caller(nullptr) then value()
AwaitResume(a) == Value(SetCaller(a, None))

\* ------------------------------------------------------------- awaiter
\* ref_count_ is a std::size_t updated by plain ++ / --; each update is a read
\* step and a write step of the worker doing it. Using the awaiter or an
\* awaitee after its destruction is undefined: such a step raises `ub` and
\* the behaviour is not followed further. TypeOK shows the count never goes
\* below zero before that, so the unsigned wrap-around is not reached.
AddRef_Skip(n) == n

AddRef(n) == n + 1

\* release(): --ref_count_ == 0 destroys the coroutine, in place
ReleaseDestroys(n) == n - 1 = 0

Release(n) == n - 1

\* ------------------------------------------------------------- awaiter_task
Cleanup(k) == [type |-> "destroy", k |-> k, e |-> None, v |-> "junk"]

TaskDtor_Always(holds, k, q) == Append(q, Cleanup(k))

\* ~awaiter_task: post a destroy_awaiter only when it still owns the awaiter
TaskDtor(holds, k, q) == IF holds THEN Append(q, Cleanup(k)) ELSE q

\* history: did a destructor post a cleanup
Posted(q1, q2) == IF Len(q2) > Len(q1) THEN 1 ELSE 0

\* ------------------------------------------------------------- await_handler<...>::operator()
AdapterWrite_Both(v, out, a) ==
  IF HasFailure(v) /\ out = "fail"
    THEN ReturnValue(SetException(a, MakeException(v)), "v")
    ELSE IF HasValue(v) THEN ReturnValue(a, "v") ELSE ReturnVoid(a)

AdapterWrite_Twice(v, out, a) ==
  IF HasFailure(v) /\ out = "fail"
    THEN SetException(SetException(a, MakeException(v)), MakeException(v))
    ELSE IF HasValue(v) THEN ReturnValue(ReturnValue(a, "v"), "v")
                        ELSE ReturnVoid(ReturnVoid(a))

AdapterWrite(v, out, a) ==
  IF HasFailure(v) /\ out = "fail"
    THEN SetException(a, MakeException(v))
    ELSE IF HasValue(v) THEN ReturnValue(a, "v") ELSE ReturnVoid(a)

\* ------------------------------------------------------------- executor
\* dispatch runs the function object in place on a worker of the context,
\* and posts it otherwise
RunsInline(w) == w \in Pool

FinalItem(r) == [type |-> "final", k |-> 0, e |-> r.e, v |-> r.v]

FinalCallbackInPlace_Direct(w) == TRUE

\* spawn_entry_point hands the final callback to (dispatch) on the executor
\* of its work guard: it runs in place only on a worker of that context
FinalCallbackInPlace(w) == RunsInline(w)

SpawnItem == [type |-> "spawn", k |-> 0, e |-> None, v |-> "junk"]

SpawnHandlerInPlace_Dispatch(w) == RunsInline(w)

\* detail::spawn hands the spawn_handler to (post), which never runs it in
\* place on the calling thread w
SpawnHandlerInPlace(w) == FALSE

\* function objects of the nested chain: its spawn_handler, a destroy_awaiter
\* of its awaiter, and its final callback (an await_handler of the outer
\* chain, with the outcome it is to be called with) when dispatch posts it
HSpawnItem == [type |-> "hspawn", k |-> 0, e |-> None, v |-> "junk"]

HCleanup == [type |-> "hdestroy", k |-> 0, e |-> None, v |-> "junk"]

AdapterItem(k, out) == [type |-> "adapter", k |-> k, e |-> out, v |-> "junk"]

\* ------------------------------------------------------------- handler_type / awaitable_signature
NestedVariant_Value == "val"

\* spawn with the await context as completion token: the signature of an
\* awaitable<T> is void(std::exception_ptr, T), and handler_type maps the
\* context to await_handler<Executor, std::exception_ptr, T>
NestedVariant == "ex_val"

\* ------------------------------------------------------------- state
Idle == [root |-> "idle", k |-> 0, pc |-> "idle", tmp |-> 0, holds |-> FALSE,
         arg |-> None, exc |-> None, outer |-> None]

NoAdapter == [st |-> "none", variant |-> "void", cur |-> FALSE, out |-> None]

\* a handler object that no longer exists
Gone(st) == [NoAdapter EXCEPT !.st = st]

NoHist == [fOutcome |-> None, fExc |-> None, nAcq |-> 0, nRel |-> 0,
           adRel |-> [k \in 1..MaxOps |-> 0], adPosted |-> [k \in 1..MaxOps |-> 0],
           failed |-> {}, failExc |-> None, resumed |-> <<>>, postFail |-> None,
           hDone |-> None, consumed |-> {},
           fromQueue |-> FALSE]

Init0 ==
  /\ nOps \in 0..MaxOps
  /\ term \in {"ret", "throw"}
  /\ cbThrows \in BOOLEAN
  /\ nestAt \in 0..nOps
  /\ hAwaits \in (IF nestAt = 0 THEN {FALSE} ELSE BOOLEAN)
  /\ hTerm \in (IF nestAt = 0 THEN {"ret"} ELSE {"ret", "throw"})
  /\ refCount = 0 /\ awPending = None /\ eAlive = FALSE
  /\ ePh = "none" /\ eDone = FALSE /\ eRes = [e |-> None, v |-> "junk"]
  /\ fAlive = FALSE /\ fPh = "none" /\ fIdx = 0
  /\ aw = [i \in 0..MaxOps |-> NoAwaitee]
  /\ ad = [k \in 1..MaxOps |-> NoAdapter]
  /\ moves = 0 /\ hPh = "none"
  /\ queue = <<>>
  /\ wk = [w \in Workers |-> Idle]
  /\ finalCalls = <<>> /\ escaped = {} /\ destroyLog = <<>>
  /\ hist = NoHist
  /\ ub = FALSE

\* the executor runs the chain's handlers one at a time (they may be on
\* different workers, never at the same time)
Init == mt = FALSE /\ Init0

\* the executor runs handlers on several workers at the same time
InitMT == mt = TRUE /\ Init0

AllIdle == \A v \in Workers : wk[v].root = "idle"

CanStart(w) == ~ub /\ wk[w].root = "idle" /\ (mt \/ AllIdle)

At(w, pc) == ~ub /\ wk[w].pc = pc

\* everything the entry frame owns goes with it: the awaitable of the user
\* function, hence the user function's frame and the awaitable it is awaiting
DestroyedAwaitees == [i \in 0..MaxOps |-> NoAwaitee]

EntrySuspended == ePh \in {"ctx", "suspended", "final"}

\* ------------------------------------------------------------- detail::spawn
\* spawn_entry_point runs to its first co_await (make_await_context, whose
\* await_ready is false) and returns the awaiter; spawn posts a spawn_handler
\* that holds one reference. w is the thread that calls spawn.
Spawn(w) ==
  /\ ~ub /\ ePh = "none" /\ wk[w].root = "idle"
  /\ eAlive' = TRUE
  /\ refCount' = AddRef(refCount)
  /\ IF SpawnHandlerInPlace(w)
       THEN /\ wk' = [wk EXCEPT ![w] = [Idle EXCEPT !.root = "spawn", !.pc = "F",
                                                    !.holds = TRUE]]
            /\ ePh' = "call"
            /\ fAlive' = TRUE /\ fPh' = "start" /\ fIdx' = 1
            /\ aw' = [aw EXCEPT ![0] = NewAwaitee]
            /\ queue' = queue
       ELSE /\ ePh' = "ctx"
            /\ queue' = Append(queue, SpawnItem)
            /\ UNCHANGED <<userVars, aw, wk>>
  /\ hist' = [hist EXCEPT !.nAcq = @ + 1]
  /\ UNCHANGED <<inputs, awPending, eDone, eRes, ad, moves, hPh,
                 finalCalls, escaped, destroyLog, ub>>

\* spawn_handler::operator(): take the reference into a local awaiter_ptr and
\* resume the entry frame, which invokes the user function.
RunSpawnHandler(w) ==
  /\ CanStart(w) /\ w \in Pool
  /\ queue # <<>> /\ Head(queue).type = "spawn"
  /\ queue' = Tail(queue)
  /\ wk' = [wk EXCEPT ![w] = [Idle EXCEPT !.root = "spawn", !.pc = "F", !.holds = TRUE]]
  /\ ePh' = "call"
  /\ fAlive' = TRUE /\ fPh' = "start" /\ fIdx' = 1
  /\ aw' = [aw EXCEPT ![0] = NewAwaitee]
  /\ hist' = [hist EXCEPT !.fromQueue = TRUE]
  /\ UNCHANGED <<inputs, awaiterVars, eDone, eRes, ad, moves, hPh,
                 finalCalls, escaped, destroyLog, ub>>

\* ------------------------------------------------------------- the user function
\* control leaves the user frame towards whoever ran it: the entry frame's
\* co_await on its first run, the adapter that resumed it later
LeaveF(w) ==
  IF wk[w].root = "spawn"
    THEN /\ wk' = [wk EXCEPT ![w].pc = "E"]
         /\ ePh' = "ready_chk"
    ELSE /\ wk' = [wk EXCEPT ![w].pc = "ad_rethrow"]
         /\ ePh' = ePh

\* initiating an operation constructs its await_handler: add_ref reads ...
FInitiate(w) ==
  /\ At(w, "F") /\ fPh = "start" /\ fIdx <= nOps
  /\ wk' = [wk EXCEPT ![w].tmp = refCount]
  /\ fPh' = "addref"
  /\ UNCHANGED <<inputs, awaiterVars, entryVars, fAlive, fIdx, aw, ad, moves, hPh, queue,
                 history>>

\* ... and writes the count; make_awaitable creates the dummy awaitable and
\* the handler goes to the operation.
FAddRef(w, v) ==
  /\ At(w, "F") /\ fPh = "addref" /\ fIdx # nestAt
  /\ refCount' = AddRef(wk[w].tmp)
  /\ ad' = [ad EXCEPT ![fIdx] = [NoAdapter EXCEPT !.st = "armed", !.variant = v,
                                   !.cur = TRUE]]
  /\ aw' = [aw EXCEPT ![fIdx] = NewAwaitee]
  /\ fPh' = "ready_chk"
  /\ hist' = [hist EXCEPT !.nAcq = @ + 1]
  /\ UNCHANGED <<inputs, awPending, eAlive, entryVars, fAlive, fIdx, moves, hPh, queue, wk,
                 finalCalls, escaped, destroyLog, ub>>

\* awaitable<T>::await_ready
FAwaitReady(w) ==
  /\ At(w, "F") /\ fPh = "ready_chk"
  /\ fPh' = IF Ready(aw[fIdx]) THEN "resume" ELSE "suspend"
  /\ UNCHANGED <<inputs, awaiterVars, entryVars, fAlive, fIdx, aw, ad, moves, hPh, queue, wk,
                 history>>

\* awaitable<T>::await_suspend: register as caller, suspend
FAwaitSuspend(w) ==
  /\ At(w, "F") /\ fPh = "suspend"
  /\ aw' = [aw EXCEPT ![fIdx] = SetCaller(@, "F")]
  /\ fPh' = "suspended"
  /\ LeaveF(w)
  /\ UNCHANGED <<inputs, awaiterVars, eDone, eRes, fAlive, fIdx, ad, moves, hPh, queue,
                 history>>

\* awaitable<T>::await_resume; a rethrown failure leaves the function body
\* (awaitee_base::unhandled_exception); the awaitable temporary is destroyed.
FAwaitResume(w) ==
  /\ At(w, "F") /\ fPh = "resume"
  /\ LET r == AwaitResume(aw[fIdx]) IN
       IF r.exc # None
         THEN /\ aw' = [aw EXCEPT ![fIdx] = NoAwaitee,
                                  ![0] = UnhandledException(@, r.exc)]
              /\ fPh' = "final" /\ fIdx' = fIdx
              /\ hist' = [hist EXCEPT !.fOutcome = "throw", !.fExc = r.exc,
                                      !.consumed = @ \cup {fIdx}]
         ELSE /\ aw' = [aw EXCEPT ![fIdx] = NoAwaitee]
              /\ fPh' = "start" /\ fIdx' = fIdx + 1
              /\ hist' = [hist EXCEPT !.consumed = @ \cup {fIdx}]
  /\ UNCHANGED <<inputs, awaiterVars, entryVars, fAlive, ad, moves, hPh, queue, wk,
                 finalCalls, escaped, destroyLog, ub>>

\* co_return V: awaitee<T>::return_value
FReturn(w) ==
  /\ At(w, "F") /\ fPh = "start" /\ fIdx = nOps + 1 /\ term = "ret"
  /\ aw' = [aw EXCEPT ![0] = ReturnValue(@, "V")]
  /\ fPh' = "final"
  /\ hist' = [hist EXCEPT !.fOutcome = "ret"]
  /\ UNCHANGED <<inputs, awaiterVars, entryVars, fAlive, fIdx, ad, moves, hPh, queue, wk,
                 finalCalls, escaped, destroyLog, ub>>

\* the body throws: awaitee_base::unhandled_exception
FThrow(w) ==
  /\ At(w, "F") /\ fPh = "start" /\ fIdx = nOps + 1 /\ term = "throw"
  /\ aw' = [aw EXCEPT ![0] = UnhandledException(@, "E1")]
  /\ fPh' = "final"
  /\ hist' = [hist EXCEPT !.fOutcome = "throw", !.fExc = "E1"]
  /\ UNCHANGED <<inputs, awaiterVars, entryVars, fAlive, fIdx, ad, moves, hPh, queue, wk,
                 finalCalls, escaped, destroyLog, ub>>

\* final_suspend: final_suspender::await_suspend wakes the registered caller
FFinalSuspend(w) ==
  /\ At(w, "F") /\ fPh = "final"
  /\ fPh' = "done"
  /\ IF WakeCaller(aw[0]) = "E"
       THEN /\ wk' = [wk EXCEPT ![w].pc = "E"]
            /\ ePh' = "resume"
       ELSE LeaveF(w)
  /\ UNCHANGED <<inputs, awaiterVars, eDone, eRes, fAlive, fIdx, aw, ad, moves, hPh, queue,
                 history>>

\* ------------------------------------------------------------- spawn_entry_point
\* control leaves the entry frame towards the handler that drove it
AfterEntry(w) == IF wk[w].root = "spawn" THEN "rel_read" ELSE "ad_rethrow"

\* co_await on the user function's awaitable: await_ready
EAwaitReady(w) ==
  /\ At(w, "E") /\ ePh = "ready_chk"
  /\ ePh' = IF Ready(aw[0]) THEN "resume" ELSE "suspend"
  /\ UNCHANGED <<inputs, awaiterVars, eDone, eRes, userVars, aw, ad, moves, hPh, queue, wk,
                 history>>

\* await_suspend: register as caller of the user function, suspend
EAwaitSuspend(w) ==
  /\ At(w, "E") /\ ePh = "suspend"
  /\ aw' = [aw EXCEPT ![0] = SetCaller(@, "E")]
  /\ ePh' = "suspended"
  /\ wk' = [wk EXCEPT ![w].pc = AfterEntry(w)]
  /\ UNCHANGED <<inputs, awaiterVars, eDone, eRes, userVars, ad, moves, hPh, queue, history>>

\* await_resume: either T t = <value>; done = true, or the catch block with
\* done still false. The awaitable temporary dies: the user frame is destroyed.
EAwaitResume(w) ==
  /\ At(w, "E") /\ ePh = "resume"
  /\ LET r == AwaitResume(aw[0]) IN
       /\ aw' = [aw EXCEPT ![0] = NoAwaitee]
       /\ IF r.exc # None
            THEN eRes' = [e |-> r.exc, v |-> "T0"] /\ eDone' = eDone
            ELSE eRes' = [e |-> None, v |-> r.val] /\ eDone' = TRUE
  /\ fAlive' = FALSE
  /\ ePh' = "dispatch"
  /\ UNCHANGED <<inputs, awaiterVars, fPh, fIdx, ad, moves, hPh, queue, wk, history>>

\* (dispatch)(work_guard.get_executor(), [handler, ...]{ handler(e, t); }): on
\* a worker of the context the callback runs here, and what it throws leaves
\* the coroutine body (`if (done) throw;`, or out of the catch block) into
\* awaiter::unhandled_exception; otherwise it is posted. hist.postFail notes
\* the handler under which that happened.
\* Then the coroutine ends: final_suspend is suspend_always.
EDispatch(w) ==
  /\ At(w, "E") /\ ePh = "dispatch"
  /\ IF FinalCallbackInPlace(w)
       THEN /\ finalCalls' = Append(finalCalls, [e |-> eRes.e, v |-> eRes.v, w |-> w])
            /\ awPending' = IF cbThrows THEN "Xcb" ELSE awPending
            /\ hist' = [hist EXCEPT !.postFail = IF cbThrows THEN wk[w].root ELSE @]
            /\ queue' = queue
       ELSE /\ queue' = Append(queue, FinalItem(eRes))
            /\ UNCHANGED <<finalCalls, awPending, hist>>
  /\ ePh' = "final"
  /\ wk' = [wk EXCEPT ![w].pc = AfterEntry(w)]
  /\ UNCHANGED <<inputs, refCount, eAlive, eDone, eRes, userVars, aw, ad, moves, hPh,
                 escaped, destroyLog, ub>>

\* the posted final callback runs on a worker of the context
RunFinal(w) ==
  /\ CanStart(w) /\ w \in Pool
  /\ queue # <<>> /\ Head(queue).type = "final"
  /\ queue' = Tail(queue)
  /\ finalCalls' = Append(finalCalls, [e |-> Head(queue).e, v |-> Head(queue).v, w |-> w])
  /\ escaped' = IF cbThrows THEN escaped \cup {<<w, "Xcb">>} ELSE escaped
  /\ UNCHANGED <<inputs, awaiterVars, entryVars, userVars, aw, ad, moves, hPh, wk,
                 destroyLog, hist, ub>>

\* ------------------------------------------------------------- await_handler<...>::operator()
\* the start of an invocation:
\*   awaiter_ptr ptr(std::move(this->awaiter_));
\* `outer` is the handler of the nested chain inside which it is called, if
\* any; h is the history so far
StartAdapter(w, k, out, outer, h) ==
  /\ ad' = [ad EXCEPT ![k].st = "running", ![k].cur = FALSE, ![k].out = out]
  /\ wk' = [wk EXCEPT ![w] = [Idle EXCEPT !.root = "adapter", !.k = k, !.pc = "ad_write",
                                          !.holds = ad[k].cur, !.arg = out,
                                          !.outer = outer]]
  /\ hist' = [h EXCEPT !.failed = IF out = "fail" THEN @ \cup {k} ELSE @,
                       !.failExc = IF out = "fail" THEN MakeException(ad[k].variant)
                                                   ELSE @]

\* an external operation invokes its handler, on any worker
InvokeAdapter(w, k, out) ==
  /\ CanStart(w)
  /\ ad[k].st = "armed" /\ k # nestAt
  /\ out = "fail" => HasFailure(ad[k].variant)
  /\ StartAdapter(w, k, out, None, hist)
  /\ UNCHANGED <<inputs, awaiterVars, entryVars, userVars, aw, moves, hPh, queue,
                 finalCalls, escaped, destroyLog, ub>>

\*   set_exception(...) / return_value(t) / return_void()
AdWrite(w) ==
  /\ At(w, "ad_write")
  /\ LET k == wk[w].k IN
       /\ aw' = [aw EXCEPT ![k] = AdapterWrite(ad[k].variant, wk[w].arg, @)]
       /\ ub' = (ub \/ ~aw[k].alive)
  /\ wk' = [wk EXCEPT ![w].pc = "ad_wake"]
  /\ UNCHANGED <<inputs, awaiterVars, entryVars, userVars, ad, moves, hPh, queue,
                 finalCalls, escaped, destroyLog, hist>>

\*   this->awaitee_->wake_caller();
AdWake(w) ==
  /\ At(w, "ad_wake")
  /\ LET k == wk[w].k IN
       IF WakeCaller(aw[k]) = "F"
         THEN /\ wk' = [wk EXCEPT ![w].pc = "F"]
              /\ fPh' = "resume"
              /\ hist' = [hist EXCEPT !.resumed = Append(@, [k |-> k, w |-> w])]
         ELSE /\ wk' = [wk EXCEPT ![w].pc = "ad_rethrow"]
              /\ UNCHANGED <<fPh, hist>>
  /\ UNCHANGED <<inputs, awaiterVars, entryVars, fAlive, fIdx, aw, ad, moves, hPh, queue,
                 finalCalls, escaped, destroyLog, ub>>

\*   ptr->rethrow_exception();   (awaiter::rethrow_exception)
AdRethrow(w) ==
  /\ At(w, "ad_rethrow")
  /\ wk' = [wk EXCEPT ![w].pc = "rel_read", ![w].exc = awPending]
  /\ awPending' = None
  /\ ub' = (ub \/ ~eAlive)
  /\ UNCHANGED <<inputs, refCount, eAlive, entryVars, userVars, aw, ad, moves, hPh, queue,
                 finalCalls, escaped, destroyLog, hist>>

\* ------------------------------------------------------------- awaiter_ptr / awaiter::release
\* ~awaiter_ptr at the end of a handler: release() reads the count ...
RelRead(w) ==
  /\ At(w, "rel_read")
  /\ wk' = [wk EXCEPT ![w].pc = "rel_write", ![w].tmp = refCount]
  /\ ub' = (ub \/ ~eAlive)
  /\ UNCHANGED <<inputs, awaiterVars, entryVars, userVars, aw, ad, moves, hPh, queue,
                 finalCalls, escaped, destroyLog, hist>>

\* ... writes it back decremented, and destroys the coroutine when the value
\* it wrote is zero. The handler is over; the operation then destroys the
\* handler object it invoked (~awaiter_task, its awaiter_ now null). What the
\* handler throws goes to its worker, or, when the nested chain's entry
\* frame called it in place, back into that frame.
RelWrite(w) ==
  /\ At(w, "rel_write")
  /\ LET k == wk[w].k
         dies == ReleaseDestroys(wk[w].tmp)
         q == IF wk[w].root = "adapter" THEN TaskDtor(ad[k].cur, k, queue) ELSE queue
     IN
       /\ refCount' = Release(wk[w].tmp)
       /\ IF dies
            THEN /\ eAlive' = FALSE /\ ePh' = "destroyed" /\ fAlive' = FALSE
                 /\ aw' = DestroyedAwaitees
                 /\ destroyLog' = Append(destroyLog,
                                         [w |-> w, root |-> wk[w].root, k |-> k,
                                          at |-> ePh])
                 /\ ub' = (ub \/ ~eAlive \/ ~EntrySuspended
                              \/ \E v \in Workers : wk[v].pc \in {"E", "F"})
            ELSE /\ UNCHANGED <<eAlive, ePh, fAlive, aw, destroyLog>>
                 /\ ub' = (ub \/ ~eAlive)
       /\ ad' = IF wk[w].root = "adapter" THEN [ad EXCEPT ![k] = Gone("done")] ELSE ad
       /\ queue' = q
       /\ hist' = [hist EXCEPT !.nRel = @ + 1,
                               !.adRel = IF k \in 1..MaxOps
                                           THEN [@ EXCEPT ![k] = @ + 1] ELSE @,
                               !.adPosted = IF k \in 1..MaxOps
                                           THEN [@ EXCEPT ![k] = @ + Posted(queue, q)]
                                           ELSE @]
  /\ IF wk[w].outer = None
       THEN /\ escaped' = IF wk[w].exc # None THEN escaped \cup {<<w, wk[w].exc>>}
                                              ELSE escaped
            /\ wk' = [wk EXCEPT ![w] = Idle]
       ELSE /\ escaped' = escaped
            /\ wk' = [wk EXCEPT ![w] = [Idle EXCEPT !.root = wk[w].outer, !.pc = "h_tail",
                                                    !.exc = wk[w].exc]]
  /\ UNCHANGED <<inputs, awPending, eDone, eRes, fPh, fIdx, moves, hPh, finalCalls>>

\* ------------------------------------------------------------- destroy_awaiter
\* destroy_awaiter::operator(): awaiter_ptr(std::move(awaiter_)); runs on a
\* worker of the context
RunDestroy(w) ==
  /\ CanStart(w) /\ w \in Pool
  /\ queue # <<>> /\ Head(queue).type = "destroy"
  /\ queue' = Tail(queue)
  /\ wk' = [wk EXCEPT ![w] = [Idle EXCEPT !.root = "destroy", !.k = Head(queue).k,
                                          !.pc = "rel_read", !.holds = TRUE]]
  /\ UNCHANGED <<inputs, awaiterVars, entryVars, userVars, aw, ad, moves, hPh, history>>

\* ------------------------------------------------------------- handler objects
\* awaiter_task(awaiter_task&&): the new object takes the awaiter_ptr, the old
\* one is left holding null and is destroyed (~awaiter_task)
MoveAdapter(k) ==
  /\ ~ub /\ ad[k].st = "armed" /\ k # nestAt /\ moves < MaxMoves
  /\ queue' = TaskDtor(FALSE, k, queue)
  /\ moves' = moves + 1
  /\ hist' = [hist EXCEPT !.adPosted[k] = @ + Posted(queue, queue')]
  /\ UNCHANGED <<inputs, awaiterVars, entryVars, userVars, aw, ad, hPh, wk,
                 finalCalls, escaped, destroyLog, ub>>

\* ~awaiter_task of a handler the operation never invoked
DropAdapter(k) ==
  /\ ~ub /\ ad[k].st = "armed" /\ k # nestAt
  /\ queue' = TaskDtor(ad[k].cur, k, queue)
  /\ ad' = [ad EXCEPT ![k] = Gone("dropped")]
  /\ hist' = [hist EXCEPT !.adPosted[k] = @ + Posted(queue, queue')]
  /\ UNCHANGED <<inputs, awaiterVars, entryVars, userVars, aw, moves, hPh, wk,
                 finalCalls, escaped, destroyLog, ub>>

\* ------------------------------------------------------------- nested spawn
\* co_await spawn(ctx, h, ctx) in the user function. detail::spawn: the
\* async_completion constructs the await_handler (add_ref writes the count)
\* and its dummy awaitable, h's entry frame runs to its first suspension with
\* the handler as its final callback, a spawn_handler for it is posted, and
\* the dummy awaitable is what the user function awaits.
FSpawnNested(w) ==
  /\ At(w, "F") /\ fPh = "addref" /\ fIdx = nestAt
  /\ refCount' = AddRef(wk[w].tmp)
  /\ ad' = [ad EXCEPT ![fIdx] = [NoAdapter EXCEPT !.st = "armed",
                                   !.variant = NestedVariant, !.cur = TRUE]]
  /\ aw' = [aw EXCEPT ![fIdx] = NewAwaitee]
  /\ fPh' = "ready_chk"
  /\ hPh' = "posted"
  /\ queue' = Append(queue, HSpawnItem)
  /\ hist' = [hist EXCEPT !.nAcq = @ + 1]
  /\ UNCHANGED <<inputs, awPending, eAlive, entryVars, fAlive, fIdx, moves, wk,
                 finalCalls, escaped, destroyLog, ub>>

\* what h's entry frame hands to its final callback: handler(e, T()) when h
\* threw, by itself or because its operation reported a failure, and
\* handler(exception_ptr(), t) otherwise
HOutcome(inner) == IF inner = "fail" \/ hTerm = "throw" THEN "fail" ELSE "ok"

\* h's entry frame dispatches its final callback, the outer chain's
\* await_handler. In place, the invocation starts on this worker inside the
\* handler that drove h; otherwise it is posted, h's entry frame ends and the
\* release() of that handler destroys the nested chain.
HDispatch(w, out, outer, q) ==
  /\ IF FinalCallbackInPlace(w)
       THEN /\ StartAdapter(w, nestAt, out, outer, [hist EXCEPT !.hDone = out])
            /\ hPh' = "delivering"
            /\ queue' = q
       ELSE /\ queue' = Append(q, AdapterItem(nestAt, out))
            /\ hPh' = "gone"
            /\ UNCHANGED <<ad, wk>>
            /\ hist' = [hist EXCEPT !.hDone = out]
  /\ UNCHANGED <<inputs, awaiterVars, entryVars, userVars, aw, moves,
                 finalCalls, escaped, destroyLog, ub>>

\* the nested chain's entry frame is destroyed while it still holds its
\* final callback: ~awaiter_task of the outer chain's await_handler
HDestroyed(q) ==
  /\ queue' = TaskDtor(ad[nestAt].cur, nestAt, q)
  /\ ad' = [ad EXCEPT ![nestAt] = Gone("dropped")]
  /\ hist' = [hist EXCEPT !.adPosted[nestAt] = @ + Posted(q, queue')]
  /\ hPh' = "gone"
  /\ UNCHANGED <<inputs, awaiterVars, entryVars, userVars, aw, moves, wk,
                 finalCalls, escaped, destroyLog, ub>>

\* the nested chain's spawn_handler runs h. h awaits its operation and the
\* handler releases its reference (one is left with the operation); or h
\* throws and the entry frame dispatches handler(e, T()); or h returns, which
\* leaves the entry frame suspended, and the handler's release() destroys it.
RunHSpawn(w) ==
  /\ CanStart(w) /\ w \in Pool
  /\ queue # <<>> /\ Head(queue).type = "hspawn"
  /\ IF hAwaits
       THEN /\ hPh' = "wait"
            /\ queue' = Tail(queue)
            /\ UNCHANGED <<inputs, awaiterVars, entryVars, userVars, aw, ad, moves, wk,
                           history>>
       ELSE IF hTerm = "throw"
              THEN HDispatch(w, HOutcome("ok"), "hspawn", Tail(queue))
              ELSE HDestroyed(Tail(queue))

\* h's operation invokes its await_handler, on any worker: h resumes and
\* ends, its final_suspend wakes the entry frame, which dispatches
InvokeInner(w, out) ==
  /\ CanStart(w) /\ hPh = "wait"
  /\ HDispatch(w, HOutcome(out), "hadapter", queue)

\* h's operation destroys its await_handler without invoking it
DropInner ==
  /\ ~ub /\ hPh = "wait"
  /\ hPh' = "dropped"
  /\ queue' = Append(queue, HCleanup)
  /\ UNCHANGED <<inputs, awaiterVars, entryVars, userVars, aw, ad, moves, wk, history>>

\* the destroy_awaiter of the nested chain releases its last reference
RunHDestroy(w) ==
  /\ CanStart(w) /\ w \in Pool
  /\ queue # <<>> /\ Head(queue).type = "hdestroy"
  /\ HDestroyed(Tail(queue))

\* the posted final callback of the nested chain runs on a worker of the context
RunPostedAdapter(w) ==
  /\ CanStart(w) /\ w \in Pool
  /\ queue # <<>> /\ Head(queue).type = "adapter"
  /\ StartAdapter(w, Head(queue).k, Head(queue).e, None, hist)
  /\ queue' = Tail(queue)
  /\ UNCHANGED <<inputs, awaiterVars, entryVars, userVars, aw, moves, hPh,
                 finalCalls, escaped, destroyLog, ub>>

\* the in-place call of the final callback is over: what it threw is
\* recorded by the nested awaiter (unhandled_exception), h's entry frame is at
\* its final suspension, and the handler that drove it ends: an await_handler
\* rethrows the recorded exception, a spawn_handler does not; its release()
\* destroys the nested chain.
HTail(w) ==
  /\ At(w, "h_tail")
  /\ escaped' = IF wk[w].root = "hadapter" /\ wk[w].exc # None
                  THEN escaped \cup {<<w, wk[w].exc>>} ELSE escaped
  /\ hPh' = "gone"
  /\ wk' = [wk EXCEPT ![w] = Idle]
  /\ UNCHANGED <<inputs, awaiterVars, entryVars, userVars, aw, ad, moves, queue,
                 finalCalls, destroyLog, hist, ub>>

\* ------------------------------------------------------------- specification
Next ==
  \/ \E w \in Workers : Spawn(w)
  \/ \E w \in Workers : RunSpawnHandler(w)
  \/ \E w \in Workers : FInitiate(w)
  \/ \E w \in Workers, v \in Variants : FAddRef(w, v)
  \/ \E w \in Workers : FAwaitReady(w)
  \/ \E w \in Workers : FAwaitSuspend(w)
  \/ \E w \in Workers : FAwaitResume(w)
  \/ \E w \in Workers : FReturn(w)
  \/ \E w \in Workers : FThrow(w)
  \/ \E w \in Workers : FFinalSuspend(w)
  \/ \E w \in Workers : EAwaitReady(w)
  \/ \E w \in Workers : EAwaitSuspend(w)
  \/ \E w \in Workers : EAwaitResume(w)
  \/ \E w \in Workers : EDispatch(w)
  \/ \E w \in Workers : RunFinal(w)
  \/ \E w \in Workers, k \in 1..MaxOps, out \in Outcomes : InvokeAdapter(w, k, out)
  \/ \E w \in Workers : AdWrite(w)
  \/ \E w \in Workers : AdWake(w)
  \/ \E w \in Workers : AdRethrow(w)
  \/ \E w \in Workers : RelRead(w)
  \/ \E w \in Workers : RelWrite(w)
  \/ \E w \in Workers : RunDestroy(w)
  \/ \E k \in 1..MaxOps : MoveAdapter(k)
  \/ \E k \in 1..MaxOps : DropAdapter(k)
  \/ \E w \in Workers : FSpawnNested(w)
  \/ \E w \in Workers : RunHSpawn(w)
  \/ \E w \in Workers, out \in Outcomes : InvokeInner(w, out)
  \/ DropInner
  \/ \E w \in Workers : RunHDestroy(w)
  \/ \E w \in Workers : RunPostedAdapter(w)
  \/ \E w \in Workers : HTail(w)

Spec == Init /\ [][Next]_vars

SpecMT == InitMT /\ [][Next]_vars

\* ------------------------------------------------------------- type invariant
TypeOK ==
  /\ refCount \in 0..(MaxOps + 1)
  /\ \A w \in Workers : wk[w].tmp \in 0..(MaxOps + 1)
  /\ ePh \in {"none", "ctx", "call", "ready_chk", "suspend", "suspended", "resume",
              "dispatch", "final", "destroyed"}
  /\ fPh \in {"none", "start", "addref", "ready_chk", "suspend", "suspended", "resume",
              "final", "done"}
  /\ Len(finalCalls) <= 2
  /\ hPh \in {"none", "posted", "wait", "dropped", "delivering", "gone"}
  /\ nestAt = 0 => hPh = "none"

\* ------------------------------------------------------------- vocabulary of the properties
\* nothing is running, nothing is queued, no operation is outstanding
Quiescent ==
  /\ ePh # "none" /\ AllIdle /\ queue = <<>>
  /\ \A k \in 1..MaxOps : ad[k].st # "armed"

ResumedBy == {hist.resumed[i].k : i \in 1..Len(hist.resumed)}

InFrame(w) == wk[w].pc \in {"E", "F"}

RefOpInProgress ==
  \E w \in Workers : wk[w].pc = "rel_write" \/ (wk[w].pc = "F" /\ fPh = "addref")

NoUB == ~ub

\* ------------------------------------------------------------- C1
\* C1: a chain whose user function returns V, with no failure anywhere, has
\* delivered exactly one final callback (no failure, V) once the chain has
\* come to rest, and never more than one - also when the function returned
\* during its first resumption.
C1_ValueDeliveredOnce ==
  /\ Len(finalCalls) <= 1
  /\ (Quiescent /\ hist.fOutcome = "ret" /\ ~cbThrows)
       => /\ Len(finalCalls) = 1
          /\ finalCalls[1].e = None /\ finalCalls[1].v = "V"

\* ------------------------------------------------------------- C2
\* C2: a chain whose user function raises before producing a value delivers
\* exactly one final callback, carrying that failure and the default value,
\* and none carrying a value.
C2_FailureDeliveredOnce ==
  /\ Len(finalCalls) <= 1
  /\ hist.fOutcome = "throw"
       => \A i \in 1..Len(finalCalls) :
            finalCalls[i].e = hist.fExc /\ finalCalls[i].v = "T0"
  /\ (Quiescent /\ hist.fOutcome = "throw") => Len(finalCalls) = 1

\* the function threw by itself after an adapter had resumed it, and the
\* callback got that failure
C2_Witness ==
  /\ Quiescent /\ hist.fOutcome = "throw" /\ hist.fExc = "E1"
  /\ ResumedBy # {}
  /\ Len(finalCalls) = 1 /\ finalCalls[1].e = "E1" /\ finalCalls[1].v = "T0"

\* ------------------------------------------------------------- C3
\* C3: the entry frame is destroyed only by a cleanup action taken from the
\* execution context's queue, never inside the release() that ends a
\* spawn-handler or adapter invocation.
C3_DestructionDeferred ==
  \A i \in 1..Len(destroyLog) : destroyLog[i].root = "destroy"

\* ------------------------------------------------------------- C4
\* C4: a frame whose ready-check sent it to suspend is never awaiting a
\* computation that has already been written (value or failure).
C4_WrittenMeansNoSuspend ==
  /\ ePh = "suspend" => ~aw[0].written
  /\ (fPh = "suspend" /\ fIdx \in 1..MaxOps) => ~aw[fIdx].written

\* ------------------------------------------------------------- C5
\* C5: for every live computation, ready() is true exactly when a value or
\* a failure has been written into it.
C5_ReadyIffWritten ==
  \A i \in 0..MaxOps : aw[i].alive => (Ready(aw[i]) <=> aw[i].written)

\* ------------------------------------------------------------- C6
\* C6: when an awaited operation reports a failure, the value slot of the
\* computation its adapter targets stays uninitialised while the failure is
\* recorded, and the final callback is invoked exactly once, with that
\* failure and the default value.
C6_ReportedFailure ==
  /\ \A k \in hist.failed :
       aw[k].alive => /\ ~aw[k].initialised
                      /\ aw[k].written => aw[k].pending = hist.failExc
  /\ hist.failed # {}
       => /\ Len(finalCalls) <= 1
          /\ \A i \in 1..Len(finalCalls) :
               finalCalls[i].e = hist.failExc /\ finalCalls[i].v = "T0"
  /\ (Quiescent /\ hist.failed # {}) => Len(finalCalls) = 1

\* an operation reported an error code and the callback got the system_error
C6_Witness ==
  /\ Quiescent /\ hist.failed = {1} /\ hist.failExc = "system_error"
  /\ Len(finalCalls) = 1
  /\ finalCalls[1].e = "system_error" /\ finalCalls[1].v = "T0"

\* ------------------------------------------------------------- C7
\* C7: whenever no add_ref/release is between its read and its write, the
\* count equals acquisitions minus releases, the entry frame is alive
\* exactly while the count is positive, and it is destroyed at most once.
C7_CountIsExact ==
  (~ub /\ ~RefOpInProgress /\ ePh # "none")
    => /\ refCount = hist.nAcq - hist.nRel
       /\ eAlive <=> (hist.nAcq - hist.nRel > 0)
       /\ Len(destroyLog) <= 1

\* ------------------------------------------------------------- C8
\* C8: at most one worker is executing code of a frame of the chain.
C8_OneFrameAtATime ==
  ~ub => Cardinality({w \in Workers : InFrame(w)}) <= 1

\* ------------------------------------------------------------- C9
\* C9: operation k+1 is initiated only after the adapter of operation k has
\* been invoked and has resumed the user function; the function's
\* resumptions happen in the order of its operations, each by that
\* operation's adapter, and never two at a time.
C9_ResumptionsInOrder ==
  /\ \A k \in 2..MaxOps :
       ad[k].st # "none" => /\ ad[k - 1].st \in {"running", "done"}
                            /\ (k - 1) \in ResumedBy
  /\ \A i \in 1..Len(hist.resumed) : hist.resumed[i].k = i
  /\ Cardinality({w \in Workers : wk[w].pc = "F"}) <= 1
  /\ \A w \in Workers :
       (wk[w].pc = "F" /\ wk[w].root = "adapter")
         => /\ wk[w].k \in {fIdx - 1, fIdx}
            /\ wk[w].k \in ResumedBy

\* the first operation completed on worker A, the second on worker B, and
\* the second resumption is under way
C9_Witness ==
  /\ Len(hist.resumed) = 2
  /\ hist.resumed[1] = [k |-> 1, w |-> "A"]
  /\ hist.resumed[2] = [k |-> 2, w |-> "B"]
  /\ wk["B"].pc = "F"

\* ------------------------------------------------------------- C10
\* C10: the reference an adapter took is released exactly once: by its
\* invocation (and then nothing is posted when the object dies), or, when
\* the adapter dies uninvoked, by the one cleanup action its destructor
\* posts; a moved-from adapter posts and releases nothing.
C10_ReferenceGivenUpOnce ==
  \A k \in 1..MaxOps :
    /\ hist.adRel[k] <= 1 /\ hist.adPosted[k] <= 1
    /\ ad[k].st = "none" => hist.adRel[k] = 0 /\ hist.adPosted[k] = 0
    /\ ad[k].st = "armed" => ad[k].cur /\ hist.adRel[k] = 0 /\ hist.adPosted[k] = 0
    /\ ad[k].st = "running" => ~ad[k].cur /\ hist.adRel[k] = 0 /\ hist.adPosted[k] = 0
    /\ ad[k].st = "done" => hist.adRel[k] = 1 /\ hist.adPosted[k] = 0
    /\ ad[k].st = "dropped" => hist.adPosted[k] = 1
    /\ (ad[k].st = "dropped" /\ Quiescent) => hist.adRel[k] = 1

\* an adapter was moved, then destroyed without being invoked, and its
\* cleanup action has released the reference
C10_Witness ==
  /\ Quiescent /\ moves = 1
  /\ ad[1].st = "dropped" /\ hist.adPosted[1] = 1 /\ hist.adRel[1] = 1

\* ------------------------------------------------------------- C11
\* C11: every invocation of the final callback runs on a worker of the
\* execution context captured at spawn time, whichever worker ran the
\* adapter that drove the entry point to its dispatch; what the entry point
\* cannot run in place waits in that context's queue.
C11_CallbackOnSpawnContext ==
  /\ \A i \in 1..Len(finalCalls) : finalCalls[i].w \in Pool
  /\ \A w \in Workers :
       (wk[w].root = "adapter" /\ w \notin Pool /\ ePh = "final")
         => \/ \E i \in 1..Len(queue) : queue[i].type = "final"
            \/ Len(finalCalls) = 1

\* the last adapter ran on worker B, outside the context, and the callback
\* ran on worker A
C11_Witness ==
  /\ Len(hist.resumed) >= 1
  /\ hist.resumed[Len(hist.resumed)].w = "B"
  /\ Len(finalCalls) = 1 /\ finalCalls[1].w = "A"

C14_WrittenAtMostOnce ==
  \A i \in 0..MaxOps :
    /\ aw[i].writes <= 1
    /\ aw[i].written <=> aw[i].writes = 1
    /\ aw[i].writes = 1 => ~(aw[i].initialised /\ aw[i].pending # None)

\* an operation's computation was written with a value and consumed, then the
\* next one was written with a failure, which the user function's own
\* computation now carries as its single outcome
C14_Witness ==
  /\ hist.failed = {2}
  /\ aw[0].writes = 1 /\ aw[0].pending = hist.failExc /\ ~aw[0].initialised
  /\ fPh = "final"

\* ------------------------------------------------------------- C15
\* C15: no completion is lost: once everything has come to rest, the user
\* function has consumed the result of every operation whose await_handler
\* was invoked, however the invocation interleaved with the function's
\* ready-check and caller registration.
C15_NoCompletionLost ==
  (Quiescent /\ ~ub)
    => \A k \in 1..MaxOps : ad[k].st = "done" => k \in hist.consumed

\* ------------------------------------------------------------- C16
\* C16: an invocation of an await_handler that has a failure argument
\* (error_code or exception_ptr, with or without a value) writes exactly one
\* outcome: when the failure is set, the failure is recorded, the computation
\* is ready and its value slot stays uninitialised; when it is not set, the
\* value (or the void completion) is written and no failure is recorded. The
\* user function, resumed by that invocation, gets that outcome from
\* await_resume.
C16_OneOutcomePerInvocation ==
  \A w \in Workers :
    LET k == wk[w].k IN
      (wk[w].root = "adapter" /\ wk[w].pc \in {"ad_wake", "F"} /\ aw[k].alive
         /\ ad[k].st = "running" /\ HasFailure(ad[k].variant))
        => /\ aw[k].writes = 1
           /\ wk[w].arg = "fail"
                => /\ aw[k].pending = MakeException(ad[k].variant)
                   /\ Ready(aw[k]) /\ ~aw[k].initialised
           /\ wk[w].arg = "ok"
                => /\ aw[k].pending = None
                   /\ aw[k].initialised <=> HasValue(ad[k].variant)
           /\ (wk[w].pc = "F" /\ fPh = "resume" /\ fIdx = k)
                => LET r == AwaitResume(aw[k]) IN
                     /\ wk[w].arg = "fail" => r.exc = MakeException(ad[k].variant)
                     /\ wk[w].arg = "ok"
                          => /\ r.exc = None
                             /\ HasValue(ad[k].variant) => r.val = "v"

\* a handler taking (exception_ptr, T) was invoked with the failure set and
\* has resumed the user function, which is about to get the failure
C16_Witness ==
  \E w \in Workers :
    /\ wk[w].root = "adapter" /\ wk[w].pc = "F" /\ wk[w].arg = "fail"
    /\ wk[w].k = fIdx /\ fPh = "resume" /\ nestAt = 0
    /\ ad[fIdx].variant = "ex_val"
    /\ AwaitResume(aw[fIdx]).exc = "ex"

\* ------------------------------------------------------------- C17
\* C17: a computation has at most one registered caller - the frame that
\* awaits it, registered while no caller is registered - and what
\* await_resume leaves behind has no caller: a wake_caller on a consumed
\* computation resumes nothing.
C17_CallerClearedByConsume ==
  /\ aw[0].caller \in {None, "E"}
  /\ \A k \in 1..MaxOps : aw[k].caller \in {None, "F"}
  /\ ePh = "suspend" => aw[0].caller = None
  /\ (fPh = "suspend" /\ fIdx \in 1..MaxOps) => aw[fIdx].caller = None
  /\ ePh = "resume" => WakeCaller(AwaitResume(aw[0]).a) = None
  /\ (fPh = "resume" /\ fIdx \in 1..MaxOps)
       => WakeCaller(AwaitResume(aw[fIdx]).a) = None

\* the user function, registered as caller of its operation's computation,
\* was woken by the handler and is about to consume the result
C17_Witness ==
  /\ fPh = "resume" /\ fIdx \in 1..MaxOps
  /\ aw[fIdx].caller = "F" /\ aw[fIdx].written
  /\ \E w \in Workers : wk[w].pc = "F" /\ wk[w].root = "adapter"

\* ------------------------------------------------------------- C18
\* C18: spawn runs no part of the user function: when it returns, the entry
\* frame is suspended at its await of the context, the user function does not
\* exist, and exactly one spawn_handler is queued; the user function's body
\* starts only when a worker of the context takes that handler from the
\* queue. The same holds of the function started by a nested spawn.
C18_UserFunctionNotInline ==
  LET nSpawn == Cardinality({i \in 1..Len(queue) : queue[i].type = "spawn"})
      nHSpawn == Cardinality({i \in 1..Len(queue) : queue[i].type = "hspawn"})
  IN
    /\ ePh = "none" => nSpawn = 0
    /\ ePh = "ctx" => /\ nSpawn = 1 /\ AllIdle
                      /\ ~fAlive /\ fPh = "none" /\ ~aw[0].alive
    /\ ePh \notin {"none", "ctx"} => nSpawn = 0 /\ hist.fromQueue
    /\ fPh # "none" => hist.fromQueue
    /\ hPh = "posted" <=> nHSpawn = 1
    /\ hPh = "posted" => hist.hDone = None
    /\ nHSpawn <= 1

\* the spawn_handler was taken from the queue by worker A and the user
\* function is at the start of its body
C18_Witness ==
  /\ hist.fromQueue /\ queue = <<>>
  /\ ePh = "call" /\ fPh = "start" /\ fIdx = 1
  /\ wk["A"].root = "spawn" /\ wk["A"].pc = "F"

\* ------------------------------------------------------------- C19
\* C19: as long as no operation has destroyed its handler uninvoked, the
\* entry frame is not destroyed while it is suspended awaiting the user
\* function's result: when the count reaches zero the entry frame has
\* dispatched the final callback and is at its final suspension.
C19_AliveUntilDispatched ==
  (\A k \in 1..MaxOps : ad[k].st # "dropped")
    => \A i \in 1..Len(destroyLog) : destroyLog[i].at = "final"

\* ------------------------------------------------------------- C20
\* the live holders of the awaiter: queued spawn_handlers and destroy_awaiters,
\* await_handler objects that still own their awaiter_ptr (with an operation,
\* in the nested chain's entry frame, or in a queued callback), and the local
\* awaiter_ptr of each handler invocation in progress
Holders ==
  Cardinality({i \in 1..Len(queue) : queue[i].type \in {"spawn", "destroy"}})
    + Cardinality({k \in 1..MaxOps : ad[k].cur})
    + Cardinality({w \in Workers : wk[w].holds})

\* C20: the count equals the number of live holders (while the user function
\* is between the read and the write of an add_ref, the handler being
\* constructed is not a holder yet), the entry frame is alive exactly while
\* there is a holder, and an await_handler invocation keeps its holder - the
\* local awaiter_ptr - from before its write until its release, so that it
\* never writes into or resumes a destroyed chain.
C20_CountEqualsHolders ==
  /\ refCount = Holders
  /\ ePh # "none" => (eAlive <=> Holders >= 1)
  /\ \A w \in Workers :
       (wk[w].root = "adapter"
          /\ wk[w].pc \in {"ad_write", "ad_wake", "F", "E", "ad_rethrow", "rel_read",
                            "rel_write"})
         => wk[w].holds /\ eAlive /\ refCount >= 1
  /\ ~ub

\* inside the invocation of the first operation's await_handler the user
\* function has initiated its second operation: the holders are the
\* invocation's local awaiter_ptr and the new handler
C20_Witness ==
  /\ refCount = 2 /\ Holders = 2
  /\ \E w \in Workers : /\ wk[w].root = "adapter" /\ wk[w].k = 1
                         /\ wk[w].pc = "F" /\ wk[w].holds
  /\ fIdx = 2 /\ ad[2].st = "armed" /\ ad[2].cur

====
